---- MODULE Spec2Model ----
(***************************************************************************)
(* Model of app.py: a Streamlit script that loads (or trains and saves) a  *)
(* claim-cost regressor and, on a button press, encodes the five widget    *)
(* values into a one-row frame, predicts, truncates and reports a tier.    *)
(* The script is re-executed top to bottom for every user interaction;     *)
(* each browser session runs it in its own thread of the one process.     *)
(***************************************************************************)
EXTENDS Integers, Sequences, FiniteSets, TLC

VARIABLES
    file,           \* content of MODEL_FILE: "absent", "corrupt" or a model
    cache,          \* st.cache_resource entry of train_model: {} or {value}
    pc,             \* per session: position of its script run
    branch,         \* per session: the branch line 59 took in its run
    model,          \* per session: the script global `model`
    training_cols,  \* per session: the script global `training_cols`
    error,          \* per session: TRUE when the run ended with an exception
    result,         \* per session: what the prediction branch rendered
    runs,           \* number of script runs started
    trained,        \* number of executions of train_model's body
    loads,          \* number of successful joblib.load calls
    requests,       \* number of predictions rendered
    noted           \* one earlier prediction, kept for comparison: {} or {r}

vars == <<file, cache, pc, branch, model, training_cols, error, result,
          runs, trained, loads, requests, noted>>

----------------------------------------------------------------------------
(* Bounds *)

\* number of script runs explored
MaxRuns == 3

\* model outputs are counted in units of 1/Scale
Scale == 2

Sessions == {"s1", "s2"}

----------------------------------------------------------------------------
(* Program constants *)

HighThreshold == 200000

MediumThreshold == 80000

\* widget values offered by the sidebar (a sample of each slider's range)
ValeurNeufChoices == {250000, 80000}

AgeVehiculeChoices == {5}

PuissanceChoices == {8}

TypeCondOptions == {"Principal", "Occasionnel"}

ZoneCircOptions == {"Urbaine", "Rurale"}

\* labels an unvalidated input provider could hand to the encoder
TypeCondAnyLabel == TypeCondOptions \cup {"principal"}

ZoneCircAnyLabel == ZoneCircOptions \cup {"Urban"}

\* the hand-written column list of the load path
FixedCols ==
    <<"valeur_vehicule_neuf", "age_vehicule_ans", "puissance_fiscale",
      "type_conducteur_Principal", "zone_circulation_Urbaine">>

----------------------------------------------------------------------------
(* Training frame and one-hot encoding *)

\* columns of the simulated frame, in insertion order
TrainFrameCols ==
    <<"valeur_vehicule_neuf", "age_vehicule_ans", "puissance_fiscale",
      "type_conducteur", "zone_circulation", "charge_sinistre">>

\* categories drawn for the two text columns
TrainCategories(col) ==
    IF col = "type_conducteur" THEN {"Principal", "Occasionnel"}
    ELSE IF col = "zone_circulation" THEN {"Urbaine", "Rurale"}
    ELSE {}

\* lexicographic order of the category labels
LexOrder == <<"Occasionnel", "Principal", "Rurale", "Urbaine">>

SortedCategories(S) == SelectSeq(LexOrder, LAMBDA c : c \in S)

Range(seq) == {seq[i] : i \in DOMAIN seq}

DummyNames(col, cats) == [i \in DOMAIN cats |-> col \o "_" \o cats[i]]

\* a plausible slip: the last level is dropped instead of the first
DropFirstDropsLast(cats) == SubSeq(cats, 1, Len(cats) - 1)

DropFirst(cats) == Tail(cats)

RECURSIVE DummyBlock(_)
DummyBlock(columns) ==
    IF columns = <<>> THEN <<>>
    ELSE DummyNames(Head(columns),
                    DropFirst(SortedCategories(TrainCategories(Head(columns)))))
         \o DummyBlock(Tail(columns))

\* pd.get_dummies(df, columns=..., drop_first=True): the untouched columns in
\* their order, then the indicator columns of each encoded column
GetDummies(frameCols, columns) ==
    SelectSeq(frameCols, LAMBDA c : c \notin Range(columns))
    \o DummyBlock(columns)

\* list(X.columns) with X = df_encoded.drop('charge_sinistre', axis=1)
TrainedCols ==
    SelectSeq(GetDummies(TrainFrameCols, <<"type_conducteur", "zone_circulation">>),
              LAMBDA c : c # "charge_sinistre")

----------------------------------------------------------------------------
(* The regressor: an opaque deterministic function of the row it is given. *)
(* Three stand-ins cover the outputs of interest; values are in 1/Scale.   *)

Models == {"mA", "mB", "mC"}

Predict(m, row) ==
    IF m = "mA"
    THEN Scale * ((row[1] \div 10) + 5000 * row[2] + 5000 * row[3]
                  + 3000 * row[4] + 2000 * row[5])
    ELSE IF m = "mB"
    THEN HighThreshold * Scale + 1 + Scale * row[4]
         - (HighThreshold - MediumThreshold) * Scale * row[5]
    ELSE (Scale + 1) * (row[5] - 1) + (HighThreshold * Scale + Scale + 2) * row[4]

----------------------------------------------------------------------------
(* The prediction branch of the button handler *)

\* a plausible slip: the flag marks the occasional driver
TypeConducteurOccasionnel(type_cond_text) ==
    IF type_cond_text = "Principal" THEN 0 ELSE 1

\* line 95
TypeConducteurPrincipal(type_cond_text) ==
    IF type_cond_text = "Principal" THEN 1 ELSE 0

\* a plausible slip: the reference label is the English one
ZoneCirculationUrban(zone_circ_text) ==
    IF zone_circ_text = "Urban" THEN 1 ELSE 0

\* line 96
ZoneCirculationUrbaine(zone_circ_text) ==
    IF zone_circ_text = "Urbaine" THEN 1 ELSE 0

\* the dict literal: the columns in insertion order and their values
InputData(inp) ==
    [cols |-> FixedCols,
     vals |-> [c \in Range(FixedCols) |->
                 IF c = "valeur_vehicule_neuf" THEN inp.valeur_neuf
                 ELSE IF c = "age_vehicule_ans" THEN inp.age_vehicule
                 ELSE IF c = "puissance_fiscale" THEN inp.puissance
                 ELSE IF c = "type_conducteur_Principal"
                      THEN TypeConducteurPrincipal(inp.type_cond_text)
                 ELSE ZoneCirculationUrbaine(inp.zone_circ_text)]]

\* DataFrame.reindex(columns=cols, fill_value=0)
Reindex(df, cols) ==
    [cols |-> cols,
     vals |-> [c \in Range(cols) |->
                 IF c \in Range(df.cols) THEN df.vals[c] ELSE 0]]

RowOf(df) == [i \in DOMAIN df.cols |-> df.vals[df.cols[i]]]

\* a plausible slip: floor instead of truncation
IntOfFloor(x) == x \div Scale

\* int(x) of a float: truncation toward zero
IntOf(x) == IF x >= 0 THEN x \div Scale ELSE -((-x) \div Scale)

\* a plausible slip: the upper threshold is inclusive
TierInclusive(charge_finale) ==
    IF charge_finale >= HighThreshold THEN "HIGH"
    ELSE IF charge_finale > MediumThreshold THEN "MEDIUM"
    ELSE "LOW"

Tier(charge_finale) ==
    IF charge_finale > HighThreshold THEN "HIGH"
    ELSE IF charge_finale > MediumThreshold THEN "MEDIUM"
    ELSE "LOW"

PredictionBranch(n, m, cols, inp) ==
    LET input_df   == Reindex(InputData(inp), cols)
        prediction == Predict(m, RowOf(input_df))
        charge     == IntOf(prediction)
    IN [n |-> n, inputs |-> inp, model |-> m, cols |-> input_df.cols,
        row |-> RowOf(input_df), prediction |-> prediction,
        charge_finale |-> charge, tier |-> Tier(charge)]

\* what the sidebar widgets can return
WidgetValues ==
    [valeur_neuf : ValeurNeufChoices, age_vehicule : AgeVehiculeChoices,
     puissance : PuissanceChoices, type_cond_text : TypeCondOptions,
     zone_circ_text : ZoneCircOptions]

\* what an input provider that does not validate labels can hand over
AnyLabelValues ==
    [valeur_neuf : {250000}, age_vehicule : AgeVehiculeChoices,
     puissance : PuissanceChoices, type_cond_text : TypeCondAnyLabel,
     zone_circ_text : ZoneCircAnyLabel]

----------------------------------------------------------------------------
(* The process *)

Init ==
    /\ file \in {"absent", "corrupt"} \cup Models
    /\ cache = {}
    /\ pc = [s \in Sessions |-> "idle"]
    /\ branch = [s \in Sessions |-> "none"]
    /\ model = [s \in Sessions |-> "unbound"]
    /\ training_cols = [s \in Sessions |-> <<>>]
    /\ error = [s \in Sessions |-> FALSE]
    /\ result = [s \in Sessions |-> {}]
    /\ runs = 0
    /\ trained = 0
    /\ loads = 0
    /\ requests = 0
    /\ noted = {}

\* a user interaction re-executes the script; line 59 picks the branch
StartRun(s) ==
    /\ pc[s] = "idle"
    /\ runs < MaxRuns
    /\ runs' = runs + 1
    /\ pc' = [pc EXCEPT ![s] = IF file = "absent" THEN "train" ELSE "load"]
    /\ branch' = [branch EXCEPT ![s] = IF file = "absent" THEN "train" ELSE "load"]
    /\ model' = [model EXCEPT ![s] = "unbound"]
    /\ training_cols' = [training_cols EXCEPT ![s] = <<>>]
    /\ error' = [error EXCEPT ![s] = FALSE]
    /\ result' = [result EXCEPT ![s] = {}]
    /\ UNCHANGED <<file, cache, trained, loads, requests, noted>>

\* a plausible slip: the fitted model is returned but never saved
TrainBodyNoSave(s) ==
    \E m \in Models :
        /\ UNCHANGED file
        /\ cache' = {[model |-> m, cols |-> TrainedCols]}
        /\ trained' = trained + 1
        /\ model' = [model EXCEPT ![s] = m]
        /\ training_cols' = [training_cols EXCEPT ![s] = TrainedCols]

\* the body of train_model: fit on fresh random data, save, return
TrainBody(s) ==
    \E m \in Models :
        /\ file' = m
        /\ cache' = {[model |-> m, cols |-> TrainedCols]}
        /\ trained' = trained + 1
        /\ model' = [model EXCEPT ![s] = m]
        /\ training_cols' = [training_cols EXCEPT ![s] = TrainedCols]

\* a plausible slip: the decorator is missing and every call trains
TrainModelUncached(s) == TrainBody(s)

\* train_model() under @st.cache_resource
TrainModel(s) ==
    IF cache = {}
    THEN TrainBody(s)
    ELSE \E v \in cache :
            /\ model' = [model EXCEPT ![s] = v.model]
            /\ training_cols' = [training_cols EXCEPT ![s] = v.cols]
            /\ UNCHANGED <<file, cache, trained>>

\* line 61
TrainPath(s) ==
    /\ pc[s] = "train"
    /\ TrainModel(s)
    /\ pc' = [pc EXCEPT ![s] = "ui"]
    /\ UNCHANGED <<branch, error, result, runs, loads, requests, noted>>

\* a plausible slip: a failed load falls back to training
LoadPathWithFallback(s) ==
    /\ pc[s] = "load"
    /\ IF file \in Models
       THEN /\ model' = [model EXCEPT ![s] = file]
            /\ training_cols' = [training_cols EXCEPT ![s] = FixedCols]
            /\ loads' = loads + 1
            /\ UNCHANGED <<file, cache, trained>>
       ELSE /\ TrainBody(s)
            /\ UNCHANGED loads
    /\ pc' = [pc EXCEPT ![s] = "ui"]
    /\ UNCHANGED <<branch, error, result, runs, requests, noted>>

\* lines 64-66; an exception of joblib.load ends the run
LoadPath(s) ==
    /\ pc[s] = "load"
    /\ IF file \in Models
       THEN /\ model' = [model EXCEPT ![s] = file]
            /\ training_cols' = [training_cols EXCEPT ![s] = FixedCols]
            /\ loads' = loads + 1
            /\ pc' = [pc EXCEPT ![s] = "ui"]
            /\ UNCHANGED error
       ELSE /\ error' = [error EXCEPT ![s] = TRUE]
            /\ pc' = [pc EXCEPT ![s] = "idle"]
            /\ UNCHANGED <<model, training_cols, loads>>
    /\ UNCHANGED <<file, cache, branch, result, runs, trained, requests, noted>>

\* lines 82-117 with the button pressed
Request(s, values) ==
    /\ pc[s] = "ui"
    /\ \E inp \in values :
          LET r == PredictionBranch(requests + 1, model[s], training_cols[s], inp)
          IN /\ result' = [result EXCEPT ![s] = {r}]
             /\ noted' \in {noted, {r}}
    /\ requests' = requests + 1
    /\ pc' = [pc EXCEPT ![s] = "idle"]
    /\ UNCHANGED <<file, cache, branch, model, training_cols, error,
                   runs, trained, loads>>

\* lines 82-88 and 120-121: the button was not pressed
NoRequest(s) ==
    /\ pc[s] = "ui"
    /\ pc' = [pc EXCEPT ![s] = "idle"]
    /\ UNCHANGED <<file, cache, branch, model, training_cols, error, result,
                   runs, trained, loads, requests, noted>>

Next ==
    \E s \in Sessions :
        \/ StartRun(s)
        \/ TrainPath(s)
        \/ LoadPath(s)
        \/ Request(s, WidgetValues)
        \/ NoRequest(s)

Spec == Init /\ [][Next]_vars

\* the same process fed by an input provider that does not validate labels
NextAnyLabel ==
    \E s \in Sessions :
        \/ StartRun(s)
        \/ TrainPath(s)
        \/ LoadPath(s)
        \/ Request(s, AnyLabelValues)
        \/ NoRequest(s)

SpecAnyLabel == Init /\ [][NextAnyLabel]_vars

----------------------------------------------------------------------------
(* Properties *)

Results == UNION {result[s] : s \in Sessions}

\* C1: every rendered prediction reports exactly one tier, decided by the
\* integer cost alone: HIGH iff cost > 200000, MEDIUM iff
\* 80000 < cost <= 200000, LOW iff cost <= 80000 (zero and negatives too).
C1_TierByCost ==
    \A r \in Results :
        /\ r.tier \in {"HIGH", "MEDIUM", "LOW"}
        /\ r.tier = "HIGH" <=> r.charge_finale > 200000
        /\ r.tier = "MEDIUM" <=> (80000 < r.charge_finale /\ r.charge_finale <= 200000)
        /\ r.tier = "LOW" <=> r.charge_finale <= 80000
        /\ r.charge_finale = 200001 => r.tier = "HIGH"
        /\ r.charge_finale = 200000 => r.tier = "MEDIUM"
        /\ r.charge_finale = 80001 => r.tier = "MEDIUM"
        /\ r.charge_finale = 80000 => r.tier = "LOW"
        /\ r.charge_finale = 0 => r.tier = "LOW"

\* two sessions show the two sides of the upper threshold
C1_Witness ==
    \E a \in Results, b \in Results :
        /\ a.charge_finale = 200000 /\ a.tier = "MEDIUM"
        /\ b.charge_finale = 200001 /\ b.tier = "HIGH"

\* C2: in the row given to the model the driver-type field is 1 iff the
\* driver-type label is exactly "Principal"; any other label gives 0.
C2_PrincipalFlag ==
    \A r \in Results :
        /\ r.cols[4] = "type_conducteur_Principal"
        /\ r.row[4] \in {0, 1}
        /\ r.row[4] = 1 <=> r.inputs.type_cond_text = "Principal"

\* a case variant and the exact label are both on screen
C2_Witness ==
    \E a \in Results, b \in Results :
        /\ a.inputs.type_cond_text = "principal" /\ a.row[4] = 0
        /\ b.inputs.type_cond_text = "Principal" /\ b.row[4] = 1

\* C3 as stated: the zone field is 1 iff the zone label is exactly "Urban".
C3_UrbanLabel ==
    \A r \in Results :
        r.row[5] = 1 <=> r.inputs.zone_circ_text = "Urban"

\* C3: in the row given to the model the zone field is 1 iff the zone label
\* is exactly "Urbaine"; any other label, "Urban" included, gives 0.
C3_UrbaineFlag ==
    \A r \in Results :
        /\ r.cols[5] = "zone_circulation_Urbaine"
        /\ r.row[5] \in {0, 1}
        /\ r.row[5] = 1 <=> r.inputs.zone_circ_text = "Urbaine"

\* the English label and the reference label are both on screen
C3_Witness ==
    \E a \in Results, b \in Results :
        /\ a.inputs.zone_circ_text = "Urban" /\ a.row[5] = 0
        /\ b.inputs.zone_circ_text = "Urbaine" /\ b.row[5] = 1

\* C4: on both startup paths the column list is the fixed five-name list and
\* the row given to the model has exactly these five fields in this order,
\* each taken from the input, or 0 when the input lacks it.
C4_FiveFieldsInOrder ==
    LET contract == <<"valeur_vehicule_neuf", "age_vehicule_ans",
                      "puissance_fiscale", "type_conducteur_Principal",
                      "zone_circulation_Urbaine">>
    IN /\ \A s \in Sessions :
            model[s] # "unbound" => training_cols[s] = contract
       /\ \A r \in Results :
            LET given == InputData(r.inputs)
            IN /\ r.cols = contract
               /\ Len(r.row) = 5
               /\ \A i \in 1..5 :
                     r.row[i] = IF contract[i] \in Range(given.cols)
                                THEN given.vals[contract[i]] ELSE 0
               /\ r.row[1] = r.inputs.valeur_neuf
               /\ r.row[2] = r.inputs.age_vehicule
               /\ r.row[3] = r.inputs.puissance

\* one session predicted with the trained columns, the other with the
\* hand-written ones
C4_Witness ==
    \E s \in Sessions, t \in Sessions :
        /\ branch[s] = "train" /\ result[s] # {}
        /\ branch[t] = "load" /\ result[t] # {}

\* C5 as stated: a run that found the file missing, or whose load failed,
\* renders no prediction.
C5_NoPredictionWithoutArtifact ==
    \A s \in Sessions :
        (branch[s] = "train" \/ error[s]) => result[s] = {}

\* C5: a file that exists but cannot be loaded is fatal: every run ends with
\* the load exception, nothing is trained or memoized in its place, and no
\* prediction is ever rendered; a missing file is not a failure.
C5_CorruptFileIsFatal ==
    [][ /\ file = "corrupt" =>
              /\ file' = "corrupt"
              /\ requests' = 0 /\ trained' = 0 /\ cache' = {} /\ loads' = 0
              /\ \A s \in Sessions :
                    /\ result'[s] = {}
                    /\ model'[s] = "unbound"
                    /\ (pc[s] = "load" /\ pc'[s] # "load")
                          => (error'[s] /\ pc'[s] = "idle")
        /\ \A s \in Sessions :
              error'[s] => /\ file' = "corrupt" /\ branch'[s] = "load"
                           /\ result'[s] = {} /\ pc'[s] = "idle" ]_vars

\* the load failed in every run of both sessions
C5_Witness ==
    /\ file = "corrupt"
    /\ runs = MaxRuns
    /\ \A s \in Sessions : error[s] /\ pc[s] = "idle"

\* C6 as stated: value 250000, age 5, power 8, "Principal", "Urban" is
\* encoded as [250000, 5, 8, 1, 1], reported as (95000, MEDIUM) when the
\* model returns 95000.
C6_EndToEndUrban ==
    \A r \in Results :
        r.inputs = [valeur_neuf |-> 250000, age_vehicule |-> 5, puissance |-> 8,
                    type_cond_text |-> "Principal", zone_circ_text |-> "Urban"]
        => /\ r.row = <<250000, 5, 8, 1, 1>>
           /\ r.prediction = 95000 * Scale
                 => (r.charge_finale = 95000 /\ r.tier = "MEDIUM")

\* C6: value 250000, age 5, power 8, "Principal", "Urbaine" is encoded as
\* [250000, 5, 8, 1, 1], and reported as (95000, MEDIUM) when the model
\* returns 95000 for that row.
C6_EndToEndUrbaine ==
    \A r \in Results :
        r.inputs = [valeur_neuf |-> 250000, age_vehicule |-> 5, puissance |-> 8,
                    type_cond_text |-> "Principal", zone_circ_text |-> "Urbaine"]
        => /\ r.row = <<250000, 5, 8, 1, 1>>
           /\ r.prediction = 95000 * Scale
                 => (r.charge_finale = 95000 /\ r.tier = "MEDIUM")

C6_Witness ==
    \E r \in Results :
        /\ r.inputs = [valeur_neuf |-> 250000, age_vehicule |-> 5, puissance |-> 8,
                       type_cond_text |-> "Principal", zone_circ_text |-> "Urbaine"]
        /\ r.row = <<250000, 5, 8, 1, 1>>
        /\ r.prediction = 95000 * Scale
        /\ r.charge_finale = 95000
        /\ r.tier = "MEDIUM"

\* C7: two predictions made by the same model for the same five inputs have
\* the same cost and the same tier, whatever was served in between.
C7_SameInputsSameResult ==
    \A a \in Results \cup noted, b \in Results :
        (a.model = b.model /\ a.inputs = b.inputs)
        => (a.charge_finale = b.charge_finale /\ a.tier = b.tier)

\* requests 1 and 3 carry the same inputs, request 2 different ones
C7_Witness ==
    \E a \in noted, b \in Results, c \in Results :
        /\ a.n = 1 /\ c.n = 2 /\ b.n = 3
        /\ a.model = b.model
        /\ a.inputs = b.inputs
        /\ c.inputs # a.inputs
        /\ a.charge_finale = b.charge_finale

\* C8 as stated: the model is loaded once, no later run loads it again.
C8_LoadedOnce == loads <= 1

\* C8: every run binds the model anew (a run that finds the file loads it
\* again), yet it is the same model every time: once the file or the
\* memoized value exists it never changes, the model a run holds is the one
\* in the file, and a prediction leaves file, memoized value, model and
\* column list as they were.
C8_SameModelEveryRun ==
    [][ /\ file \in Models => file' = file
        /\ cache # {} => cache' = cache
        /\ \A s \in Sessions : model'[s] # "unbound" => model'[s] = file'
        /\ requests' # requests =>
              UNCHANGED <<file, cache, model, training_cols>> ]_vars

\* the file has been loaded by two runs and a prediction was rendered
C8_Witness ==
    /\ loads >= 2
    /\ \E s \in Sessions : result[s] # {} /\ model[s] = file

\* C9: the cost is the model output truncated toward zero, and the tier is
\* taken from the truncated cost: an output strictly between 200000 and
\* 200001 is MEDIUM, one strictly between 80000 and 80001 is LOW.
C9_TruncatedTowardZero ==
    \A r \in Results :
        LET x == r.prediction
            c == r.charge_finale
        IN /\ x >= 0 => (c * Scale <= x /\ x < (c + 1) * Scale)
           /\ x < 0 => (x <= c * Scale /\ (c - 1) * Scale < x)
           /\ (200000 * Scale < x /\ x < 200001 * Scale) => r.tier = "MEDIUM"
           /\ (80000 * Scale < x /\ x < 80001 * Scale) => r.tier = "LOW"
           /\ r.tier = (IF c > 200000 THEN "HIGH"
                        ELSE IF c > 80000 THEN "MEDIUM" ELSE "LOW")

\* a fractional output just above the upper threshold and a fractional
\* negative output are both on screen
C9_Witness ==
    \E a \in Results, b \in Results :
        /\ 200000 * Scale < a.prediction /\ a.prediction < 200001 * Scale
        /\ a.tier = "MEDIUM"
        /\ b.prediction < 0 /\ b.prediction % Scale # 0
        /\ b.charge_finale = -1

\* C10: the body of train_model executes at most once, only for a run that
\* found the file missing, and leaves the file saved and the result
\* memoized, so that no later run trains again.
C10_TrainedAtMostOnce ==
    [][ /\ trained' <= 1
        /\ trained' # trained =>
              /\ file = "absent" /\ cache = {}
              /\ \E s \in Sessions : pc[s] = "train" /\ branch[s] = "train"
        /\ trained' = 1 => (file' \in Models /\ cache' # {}) ]_vars

\* two runs found the file missing; one trained, the other got the
\* memoized result
C10_Witness ==
    /\ trained = 1
    /\ \A s \in Sessions :
          branch[s] = "train" /\ pc[s] = "ui" /\ model[s] = file

====
